---- MODULE Spec2Model ----
(***************************************************************************)
(* Model of the three entry points of msaccess-to-docuware-masterdata:     *)
(*   insert.py  main()               import flow                           *)
(*   delete.py  main()               bulk-delete flow                      *)
(*   view.py    print_sqlite_table() inspector                             *)
(* The entry points are separate processes that share the SQLite tracking  *)
(* table; they are run one after another.                                  *)
(***************************************************************************)
EXTENDS Integers, Sequences, FiniteSets, TLC

(***************************************************************************)
(* Bounds of the model.                                                    *)
(***************************************************************************)
MaxRows   == 2   \* rows of the DataFrame fetched by one import run
MaxRemote == 3   \* entries in the file cabinet when a delete run starts
PageSize  == 2   \* stands for count=10000 of the LIST request
MaxCount  == 4   \* the request counters saturate here

(***************************************************************************)
(* Program constants.                                                      *)
(***************************************************************************)
HTTP_OK == 200

Statuses == {200, 500}          \* status codes a response can carry

(***************************************************************************)
(* Field values of a source row.  A cell is text or a null; pandas hands   *)
(* a null over as None or as float NaN, depending on the column dtype.     *)
(***************************************************************************)
Text(s) == [kind |-> "str",  s |-> s]
None    == [kind |-> "None", s |-> ""]
NaN     == [kind |-> "nan",  s |-> ""]
NULL    == [kind |-> "NULL", s |-> ""]      \* SQL NULL, as stored

Texts  == {"", "a"}
Values == {Text(s) : s \in Texts} \cup {None, NaN}

\* The cells of one DataFrame: its nulls all have the representation n.
Cells(n) == {Text(s) : s \in Texts} \cup {n}

\* Two processes hash a str with the same seed or with different ones, and
\* two NaN objects hash alike or not: two values of each tell the cases apart.
Seeds == {0, 1}
Addrs == {0, 1}
DocIds == 1 .. MaxRemote

Min(a, b) == IF a < b THEN a ELSE b
Bump(n) == Min(n + 1, MaxCount)

(***************************************************************************)
(* sqlite3 parameter binding: None binds as NULL, and so does a float NaN  *)
(* (SQLite turns a NaN double into NULL); text binds as itself.            *)
(***************************************************************************)
ToSql(v) == IF v.kind = "str" THEN v ELSE NULL

\* SQL "=": a comparison with NULL is never true.
SqlEq(a, b) == a # NULL /\ b # NULL /\ a = b

\* Python "v or ''": None and '' are falsy, NaN and non-empty text truthy.
OrEmpty(v) == IF v = None \/ v = Text("") THEN Text("") ELSE v

\* SQLiteManager.is_duplicate
is_duplicate(t, f1, f2) ==
    \E r \in t : /\ SqlEq(r.field1, ToSql(OrEmpty(f1)))
                 /\ SqlEq(r.field2, ToSql(OrEmpty(f2)))

\* Python "field1+field2": str+str concatenates, nan+nan is nan, every
\* other combination with a null raises TypeError.
CanAdd(f1, f2) == \/ f1.kind = "str" /\ f2.kind = "str"
                  \/ f1 = NaN /\ f2 = NaN

Add(f1, f2) == IF f1.kind = "str" THEN Text(f1.s \o f2.s) ELSE NaN

\* f"ID_{hash(x)}": the hash of a str is a function of the process seed and
\* the characters; the hash of a NaN is derived from the object's address.
\* Distinct (seed, text) give distinct hashes at this scale.
MakeId(seed, x, addr) ==
    IF x.kind = "str" THEN [kind |-> "str", seed |-> seed, s |-> x.s]
                      ELSE [kind |-> "nan", seed |-> addr, s |-> ""]

\* SQLiteManager.insert: INSERT OR REPLACE on the primary key id.
insert(t, id, f1, f2) ==
    {r \in t : r.id # id}
        \cup {[id |-> id, field1 |-> ToSql(f1), field2 |-> ToSql(f2)]}

\* import_records: a row is recorded iff its response has status 200.
Recorded_any(st) == TRUE

Recorded(st) == st = HTTP_OK

\* docuware_login: a status other than 200 raises.
LoginRaises_never(st) == FALSE

LoginRaises(st) == st # HTTP_OK

\* main of insert.py: "if session: docuware_logout(session)".
ShouldLogout(s) == s

\* Which entry points wrap their body in "except Exception".
MainCatches_all(p) == TRUE

MainCatches(p) == p \in {"delete", "view"}

\* delete_docuware_data: "if data_count == 0: break".
BreaksOnEmpty_never(n) == FALSE

BreaksOnEmpty(n) == n = 0

\* The page the service returns for the wildcard query: the first PageSize
\* entries of the collection, in id order.
RECURSIVE SortedSeq(_)
SortedSeq(S) ==
    IF S = {} THEN <<>>
    ELSE LET m == CHOOSE x \in S : \A y \in S : x <= y
         IN  <<m>> \o SortedSeq(S \ {m})

Page(coll) == SubSeq(SortedSeq(coll), 1, Min(PageSize, Cardinality(coll)))

VARIABLES
    table,       \* rows of the SQLite tracking table
    proc,        \* entry point that is running or ran last
    pc,          \* its position
    exit,        \* how it ended: "none", "returned", "raised"
    err,         \* an exception reached the entry point's frame
    logged,      \* messages written by the entry point's except clause
    session,     \* main's variable "session" holds a Session object
    loginStatus, \* status docuware_login got from Logon (0: none)
    logoffs,     \* POST Account/Logoff requests of this invocation
    seed,        \* hash seed of the import process
    nullAs,      \* what a null cell of its DataFrame is: None or NaN
    nrows,       \* len(df)
    idx,         \* rows of df iterated so far
    row,         \* (field1, field2) of the row iterated last
    response,    \* status of the last create response (0: none)
    posts,       \* POST Documents requests of this invocation
    remote,      \* entries of the file cabinet
    items,       \* Items of the last LIST response
    pos,         \* items deleted so far in the for loop
    delLog,      \* ids of the DELETE requests since the last LIST
    listStatus,  \* status of the last LIST response (0: none)
    emptySeen,   \* a LIST response had zero items
    nListed,     \* entries returned by them
    nDelete,     \* DELETE requests of this invocation
    printed      \* what the inspector printed

vars == <<table, proc, pc, exit, err, logged, session, loginStatus, logoffs,
          seed, nullAs, nrows, idx, row, response, posts, remote, items, pos,
          delLog, listStatus, emptySeen, nListed, nDelete, printed>>

importVars == <<seed, nullAs, nrows, idx, row, response, posts>>
deleteVars == <<remote, items, pos, delLog, listStatus, emptySeen,
                nListed, nDelete>>

Init ==
    /\ table = {}
    /\ proc = "none" /\ pc = "done" /\ exit = "none"
    /\ err = FALSE /\ logged = 0
    /\ session = FALSE /\ loginStatus = 0 /\ logoffs = 0
    /\ seed = 0 /\ nullAs = None /\ nrows = 0 /\ idx = 0
    /\ row = <<Text(""), Text("")>> /\ response = 0 /\ posts = 0
    /\ remote = {} /\ items = <<>> /\ pos = 0 /\ delLog = <<>>
    /\ listStatus = 0 /\ emptySeen = FALSE
    /\ nListed = 0 /\ nDelete = 0
    /\ printed = "nothing"

\* A fresh process: every per-invocation variable is at its initial value.
Fresh(p, first) ==
    /\ proc' = p /\ pc' = first /\ exit' = "none"
    /\ err' = FALSE /\ logged' = 0
    /\ session' = FALSE /\ loginStatus' = 0 /\ logoffs' = 0
    /\ nrows' = 0 /\ idx' = 0
    /\ row' = <<Text(""), Text("")>> /\ response' = 0 /\ posts' = 0
    /\ remote' = {} /\ items' = <<>> /\ pos' = 0 /\ delLog' = <<>>
    /\ listStatus' = 0 /\ emptySeen' = FALSE
    /\ nListed' = 0 /\ nDelete' = 0
    /\ printed' = "nothing"
    /\ UNCHANGED table

\* An exception leaves the entry point: caught and logged, or propagated.
Leave(p) ==
    /\ pc' = "done"
    /\ err' = TRUE
    /\ IF MainCatches(p)
       THEN exit' = "returned" /\ logged' = logged + 1
       ELSE exit' = "raised" /\ logged' = logged

(***************************************************************************)
(* insert.py                                                               *)
(***************************************************************************)

\* main: SQLiteManager(), setup() (CREATE TABLE IF NOT EXISTS keeps the rows).
ImportStart ==
    /\ pc = "done"
    /\ \E s \in Seeds : seed' = s
    /\ \E n \in {None, NaN} : nullAs' = n
    /\ Fresh("import", "login")

\* docuware_login inside main's try.
ImportLogin ==
    /\ proc = "import" /\ pc = "login"
    /\ \/ /\ \E st \in Statuses :
               /\ loginStatus' = st
               /\ IF LoginRaises(st)
                  THEN session' = FALSE /\ err' = TRUE /\ pc' = "finally"
                  ELSE session' = TRUE /\ err' = FALSE /\ pc' = "fetch"
       \/ \* session.post raises (no response)
          /\ loginStatus' = 0
          /\ session' = FALSE /\ err' = TRUE /\ pc' = "finally"
    /\ UNCHANGED <<table, proc, exit, logged, logoffs>>
    /\ UNCHANGED <<importVars, deleteVars, printed>>

\* import_set1: fetch_data returns the DataFrame, empty on any failure.
ImportFetch ==
    /\ proc = "import" /\ pc = "fetch"
    /\ \E n \in 0 .. MaxRows :
          /\ nrows' = n
          /\ pc' = IF n = 0 THEN "finally" ELSE "rows"
    /\ UNCHANGED <<table, proc, exit, err, logged, session, loginStatus,
                   logoffs, seed, nullAs, idx, row, response, posts>>
    /\ UNCHANGED <<deleteVars, printed>>

\* One iteration of "for _, row in df.iterrows()" of import_records.
ImportRow ==
    /\ proc = "import" /\ pc = "rows"
    /\ idx' = idx + 1
    /\ \E f1 \in Cells(nullAs), f2 \in Cells(nullAs) :
        /\ row' = <<f1, f2>>
        /\ IF is_duplicate(table, f1, f2)
           THEN /\ response' = 0 /\ posts' = posts
                /\ table' = table
                /\ err' = FALSE
                /\ pc' = IF idx + 1 = nrows THEN "finally" ELSE "rows"
           ELSE /\ posts' = posts + 1
                /\ \/ \* send_to_docuware raises
                      /\ response' = 0
                      /\ table' = table
                      /\ err' = TRUE /\ pc' = "finally"
                   \/ \E st \in Statuses :
                        /\ response' = st
                        /\ IF Recorded(st)
                           THEN IF CanAdd(f1, f2)
                                THEN /\ \E a \in Addrs :
                                          table' = insert(table,
                                              MakeId(seed, Add(f1, f2), a),
                                              f1, f2)
                                     /\ err' = FALSE
                                     /\ pc' = IF idx + 1 = nrows
                                              THEN "finally" ELSE "rows"
                                ELSE \* TypeError in field1+field2
                                     /\ table' = table
                                     /\ err' = TRUE /\ pc' = "finally"
                           ELSE /\ table' = table
                                /\ err' = FALSE
                                /\ pc' = IF idx + 1 = nrows
                                         THEN "finally" ELSE "rows"
    /\ UNCHANGED <<proc, exit, logged, session, loginStatus, logoffs,
                   seed, nullAs, nrows>>
    /\ UNCHANGED <<deleteVars, printed>>

\* main's finally clause, then the end of main.
ImportFinally ==
    /\ proc = "import" /\ pc = "finally"
    /\ logoffs' = IF ShouldLogout(session) THEN logoffs + 1 ELSE logoffs
    /\ IF err
       THEN Leave("import")
       ELSE pc' = "done" /\ exit' = "returned" /\ UNCHANGED <<err, logged>>
    /\ UNCHANGED <<table, proc, session, loginStatus>>
    /\ UNCHANGED <<importVars, deleteVars, printed>>

(***************************************************************************)
(* delete.py                                                               *)
(***************************************************************************)

DeleteStart ==
    /\ pc = "done"
    /\ UNCHANGED <<seed, nullAs>>
    /\ Fresh("delete", "login")

\* login: logs a failed status and returns the session all the same.
DeleteLogin ==
    /\ proc = "delete" /\ pc = "login"
    /\ \/ \* any status: it only selects the message that is logged
          /\ session' = TRUE
          /\ \E c \in SUBSET DocIds : remote' = c
          /\ pc' = "list"
          /\ UNCHANGED <<exit, err, logged>>
       \/ \* session.post raises
          /\ Leave("delete")
          /\ UNCHANGED <<session, remote>>
    /\ UNCHANGED <<table, proc, loginStatus, logoffs, items, pos, delLog,
                   listStatus, emptySeen, nListed, nDelete>>
    /\ UNCHANGED <<importVars, printed>>

\* delete_docuware_data: the GET at the head of the while loop.
DeleteList ==
    /\ proc = "delete" /\ pc = "list"
    /\ delLog' = <<>>
    /\ pos' = 0
    /\ \/ \E st \in Statuses :
            /\ listStatus' = st
            /\ IF st # HTTP_OK
               THEN /\ pc' = "clear"
                    /\ UNCHANGED <<items, emptySeen, nListed>>
               ELSE /\ items' = Page(remote)
                    /\ nListed' = Min(nListed + Len(Page(remote)), MaxCount)
                    /\ IF BreaksOnEmpty(Len(Page(remote)))
                       THEN pc' = "clear" /\ emptySeen' = TRUE
                       ELSE /\ pc' = IF Len(Page(remote)) = 0
                                     THEN "list" ELSE "delete"
                            /\ emptySeen' = (emptySeen
                                              \/ Len(Page(remote)) = 0)
            /\ UNCHANGED <<exit, err, logged>>
       \/ \* session.get raises
          /\ Leave("delete")
          /\ UNCHANGED <<items, listStatus, emptySeen, nListed>>
    /\ UNCHANGED <<table, proc, session, loginStatus, logoffs, remote,
                   nDelete>>
    /\ UNCHANGED <<importVars, printed>>

\* One iteration of "for item in items".
DeleteItem ==
    /\ proc = "delete" /\ pc = "delete"
    /\ nDelete' = Bump(nDelete)
    /\ delLog' = Append(delLog, items[pos + 1])
    /\ pos' = pos + 1
    /\ \/ /\ \E st \in Statuses :
               remote' = IF st = HTTP_OK THEN remote \ {items[pos + 1]}
                                         ELSE remote
          /\ pc' = IF pos + 1 = Len(items) THEN "list" ELSE "delete"
          /\ UNCHANGED <<exit, err, logged>>
       \/ \* session.delete raises
          /\ Leave("delete")
          /\ UNCHANGED remote
    /\ UNCHANGED <<table, proc, session, loginStatus, logoffs, items,
                   listStatus, emptySeen, nListed>>
    /\ UNCHANGED <<importVars, printed>>

\* clear_sqlite_table, then the end of main.
DeleteClear ==
    /\ proc = "delete" /\ pc = "clear"
    /\ \/ table' = {}
       \/ table' = table      \* sqlite3 raised; caught inside the function
    /\ pc' = "done" /\ exit' = "returned"
    /\ UNCHANGED <<proc, err, logged, session, loginStatus, logoffs>>
    /\ UNCHANGED <<importVars, deleteVars, printed>>

(***************************************************************************)
(* view.py                                                                 *)
(***************************************************************************)

ViewStart ==
    /\ pc = "done"
    /\ UNCHANGED <<seed, nullAs>>
    /\ Fresh("view", "print")

print_sqlite_table ==
    /\ proc = "view" /\ pc = "print"
    /\ \/ /\ printed' = IF table = {} THEN "No records found."
                                      ELSE "records"
          /\ pc' = "done" /\ exit' = "returned"
          /\ UNCHANGED <<err, logged>>
       \/ \* sqlite3 raises
          /\ printed' = "Error reading from SQLite"
          /\ Leave("view")
    /\ UNCHANGED <<table, proc, session, loginStatus, logoffs>>
    /\ UNCHANGED <<importVars, deleteVars>>

Next ==
    \/ ImportStart \/ ImportLogin \/ ImportFetch \/ ImportRow
    \/ ImportFinally
    \/ DeleteStart \/ DeleteLogin \/ DeleteList \/ DeleteItem
    \/ DeleteClear
    \/ ViewStart \/ print_sqlite_table

Spec == Init /\ [][Next]_vars

\* A started process keeps executing: no step is postponed forever.
LiveSpec == Init /\ [][Next]_vars /\ WF_vars(Next)

(***************************************************************************)
(* Properties                                                              *)
(***************************************************************************)

\* The pair (f1, f2), as insert writes it, is a row of the table t.
Tracked(t, f1, f2) ==
    \E r \in t : r.field1 = ToSql(f1) /\ r.field2 = ToSql(f2)

\* The step is an iteration of import_records' loop.
InRows == proc = "import" /\ pc = "rows"

\* The step is clear_sqlite_table.
InClear == proc = "delete" /\ pc = "clear"

\* The delete flow is inside the while loop of delete_docuware_data.
InDeleteLoop == proc = "delete" /\ pc \in {"list", "delete"}

IsPrefix(a, b) == Len(a) <= Len(b) /\ a = SubSeq(b, 1, Len(a))

\* C1: a row whose (field1, field2) pair is already a row of the tracking
\* table when the loop reaches it causes no POST Documents request and
\* leaves the table as it is.
C1_TrackedRowSkipped ==
    [][ (InRows /\ Tracked(table, row'[1], row'[2]))
            => (posts' = posts /\ table' = table) ]_vars

\* C2: a row whose create request returned 200 is reported by is_duplicate
\* right after the iteration, and a pair that is reported stays reported by
\* every later step, whatever other pairs are recorded, until
\* clear_sqlite_table runs.
C2_AckedStaysDuplicate ==
    [][ \A f1 \in Values, f2 \in Values :
          ( /\ \/ /\ InRows /\ posts' = posts + 1
                  /\ response' = HTTP_OK /\ row' = <<f1, f2>>
               \/ is_duplicate(table, f1, f2)
            /\ ~InClear )
          => is_duplicate(table', f1, f2) ]_vars

\* C3: an iteration whose create request returned a status other than 200
\* leaves the table unchanged, is_duplicate of the row's pair is still false,
\* the loop goes on to the next row (or ends normally after the last one);
\* and every iteration that reaches a row is_duplicate does not report sends
\* the create request, so a later run retries the row.
C3_FailedRowNotRecorded ==
    [][ InRows =>
          /\ (response' # 0 /\ response' # HTTP_OK)
                => /\ table' = table
                   /\ ~is_duplicate(table', row'[1], row'[2])
                   /\ ~err'
                   /\ pc' = IF idx' = nrows THEN "finally" ELSE "rows"
          /\ ~is_duplicate(table, row'[1], row'[2])
                => posts' = posts + 1 ]_vars

\* A first row was answered 500 and the loop is at the second row.
C3_Witness ==
    /\ proc = "import" /\ pc = "rows" /\ idx = 1
    /\ response = 500 /\ posts = 1
    /\ table # {} /\ ~is_duplicate(table, row[1], row[2])

\* C4: the DELETE requests since the last LIST are a prefix of the listed
\* page, one per entry and in order; when the next LIST is due they are the
\* whole page; once a LIST returned no entries the flow is past the loop,
\* where no LIST or DELETE is sent, and then as many DELETE requests were
\* sent as entries were listed.
C4_DeleteEveryListedEntry ==
    proc = "delete" =>
        /\ IsPrefix(delLog, items)
        /\ pc = "list" => delLog = items
        /\ emptySeen => pc \in {"clear", "done"}
        /\ emptySeen => nDelete = nListed

\* Pages of 2, 1 and 0 entries: three DELETE requests, then the end.
C4_Witness ==
    /\ proc = "delete" /\ pc = "done" /\ emptySeen
    /\ nListed = 3 /\ nDelete = 3 /\ remote = {}

\* C5: an import or delete invocation that obtained a session has sent a
\* POST Account/Logoff by the time it ends.
C5_LogoutOnEveryExit ==
    (pc = "done" /\ proc \in {"import", "delete"} /\ session)
        => logoffs >= 1

\* C6: when the loop was left because a LIST returned a status other than
\* 200, the rest of the delete flow leaves the tracking table as it was.
C6_ListFailureKeepsTable ==
    [][ (InClear /\ listStatus # 0 /\ listStatus # HTTP_OK)
            => table' = table ]_vars

\* The state of the import flow after a Logon response other than 200.
C7_StateAfterFailedLogin ==
    (proc = "import" /\ loginStatus # 0 /\ loginStatus # HTTP_OK)
        => /\ ~session /\ err
           /\ nrows = 0 /\ idx = 0 /\ posts = 0 /\ logoffs = 0
           /\ pc \in {"finally", "done"}
           /\ pc = "done" => exit = "raised"

\* C7: after a Logon response with a status other than 200 the import flow
\* holds no session, fetched and iterated no row, sent no create request and
\* no logoff, changed no row of the table, and ends with the exception.
C7_LoginFailureAborts ==
    /\ []C7_StateAfterFailedLogin
    /\ [][ (proc' = "import" /\ loginStatus' # 0 /\ loginStatus' # HTTP_OK)
              => table' = table ]_vars

\* An import run over a non-empty table ended by a failed login.
C7_Witness ==
    /\ proc = "import" /\ pc = "done" /\ loginStatus = 500
    /\ exit = "raised" /\ table # {}

\* C8, as stated: whenever an exception was raised inside an entry point,
\* the entry point returned normally and logged one message.
C8_EveryEntryPointCatches ==
    (pc = "done" /\ err) => (exit = "returned" /\ logged = 1)

\* C8, amended: delete's main and print_sqlite_table catch every exception
\* that reaches them, write one message and return; import's main has no
\* except clause, so an exception that reaches it (the login failure
\* included) leaves main after the logoff of an obtained session, with
\* nothing logged by main.  Without an exception every entry point returns.
C8_CatchAllExceptImport ==
    pc = "done" /\ proc # "none" =>
        IF ~err THEN exit = "returned" /\ logged = 0
        ELSE IF proc \in {"delete", "view"}
             THEN exit = "returned" /\ logged = 1
             ELSE /\ exit = "raised" /\ logged = 0
                  /\ logoffs = IF session THEN 1 ELSE 0

\* The login-failure error has left import's main.
C8_Witness ==
    /\ proc = "import" /\ pc = "done" /\ err
    /\ loginStatus = 500 /\ ~session /\ logoffs = 0

\* C9: the id column is unique and no two rows hold the same
\* (field1, field2) pair.
C9_OneRowPerPair ==
    \A r1 \in table, r2 \in table :
        (r1.id = r2.id \/ (r1.field1 = r2.field1 /\ r1.field2 = r2.field2))
            => r1 = r2

\* C10: the while loop of delete_docuware_data is always left eventually.
C10_LoopTerminates == InDeleteLoop ~> ~InDeleteLoop

TypeOK ==
    /\ proc \in {"none", "import", "delete", "view"}
    /\ exit \in {"none", "returned", "raised"}
    /\ idx \in 0 .. MaxRows /\ posts \in 0 .. MaxRows
    /\ remote \subseteq DocIds
====
